---- MODULE Spec2Model ----
(***************************************************************************)
(* Operation dispatch of BuiltinVariable (torchdynamo/variables/builtin.py) *)
(* as a state machine: the interpreter feeds one built-in call at a time,   *)
(* call_function decides among graph insertion, a specialized call_<name>  *)
(* handler, constant folding and the generic fallback, and the interpreter  *)
(* consumes the returned value or the raised failure.                       *)
(***************************************************************************)
EXTENDS Integers, Sequences, FiniteSets, TLC

VARIABLES pc, call, ports, outcome, counters, symbolic_locals, second, yielded

vars == <<pc, call, ports, outcome, counters, symbolic_locals, second, yielded>>

(***************************************************************************)
(* Bounds of the model.                                                     *)
(***************************************************************************)
\* most positional operands of a fed call
MaxArgs == 2
\* longest sequence of the sum / reduce inputs
MaxLen == 3
\* most entries of the failure statistics before the interpreter stops feeding
MaxStats == 2

(***************************************************************************)
(* Host values: the payload of a ConstantVariable.  One record shape for    *)
(* every host type: t is the type, i an int, s the items of a tuple / list, *)
(* n the text of a str.                                                     *)
(***************************************************************************)
PyInt(i) == [t |-> "int", i |-> i, s |-> <<>>, n |-> ""]
PyTuple(s) == [t |-> "tuple", i |-> 0, s |-> s, n |-> ""]
PyList(s) == [t |-> "list", i |-> 0, s |-> s, n |-> ""]
PyStr(n) == [t |-> "str", i |-> 0, s |-> <<>>, n |-> n]
PyNone == [t |-> "none", i |-> 0, s |-> <<>>, n |-> ""]

IsSeqP(p) == p.t \in {"tuple", "list"}

\* the outcome of evaluating a host operation: a payload or a raised exception
HOk(p) == [ok |-> TRUE, exc |-> "", p |-> p]
HRaise(exc) == [ok |-> FALSE, exc |-> exc, p |-> PyNone]

RECURSIVE Repeat(_, _)
\* s * n of the host language: s repeated n times, empty for n <= 0
Repeat(s, n) == IF n <= 0 THEN <<>> ELSE s \o Repeat(s, n - 1)

RECURSIVE LexLess(_, _)
\* s1 < s2 of two host sequences of ints
LexLess(s1, s2) ==
    IF s2 = <<>> THEN FALSE
    ELSE IF s1 = <<>> THEN TRUE
    ELSE IF Head(s1) # Head(s2) THEN Head(s1) < Head(s2)
    ELSE LexLess(Tail(s1), Tail(s2))

\* e[k:] of the host language, for an int k of either sign
PySliceFrom(e, k) ==
    LET n == Len(e)
        lo == IF k < 0 THEN (IF k + n < 0 THEN 0 ELSE k + n)
              ELSE (IF k > n THEN n ELSE k)
    IN SubSeq(e, lo + 1, n)

host_add(a, b) ==
    IF a.t = "int" /\ b.t = "int" THEN HOk(PyInt(a.i + b.i))
    ELSE IF IsSeqP(a) /\ a.t = b.t THEN HOk([a EXCEPT !.s = a.s \o b.s])
    ELSE HRaise("TypeError")

host_sub(a, b) ==
    IF a.t = "int" /\ b.t = "int" THEN HOk(PyInt(a.i - b.i))
    ELSE HRaise("TypeError")

host_mul(a, b) ==
    IF a.t = "int" /\ b.t = "int" THEN HOk(PyInt(a.i * b.i))
    ELSE IF IsSeqP(a) /\ b.t = "int" THEN HOk([a EXCEPT !.s = Repeat(a.s, b.i)])
    ELSE IF IsSeqP(b) /\ a.t = "int" THEN HOk([b EXCEPT !.s = Repeat(b.s, a.i)])
    ELSE HRaise("TypeError")

host_floordiv(a, b) ==
    IF a.t = "int" /\ b.t = "int"
    THEN IF b.i = 0 THEN HRaise("ZeroDivisionError")
         ELSE IF b.i > 0 THEN HOk(PyInt(a.i \div b.i))
         ELSE HOk(PyInt((0 - a.i) \div (0 - b.i)))
    ELSE HRaise("TypeError")

host_getitem(a, b) ==
    IF IsSeqP(a) /\ b.t = "int"
    THEN LET idx == IF b.i < 0 THEN b.i + Len(a.s) ELSE b.i
         IN IF idx >= 0 /\ idx < Len(a.s) THEN HOk(PyInt(a.s[idx + 1]))
            ELSE HRaise("IndexError")
    ELSE HRaise("TypeError")

host_neg(a) == IF a.t = "int" THEN HOk(PyInt(0 - a.i)) ELSE HRaise("TypeError")

host_abs(a) ==
    IF a.t = "int" THEN HOk(PyInt(IF a.i < 0 THEN 0 - a.i ELSE a.i))
    ELSE HRaise("TypeError")

host_len(a) == IF IsSeqP(a) THEN HOk(PyInt(Len(a.s))) ELSE HRaise("TypeError")

RECURSIVE host_fold_add(_, _)
\* acc + e[1] + ... + e[n], left to right, as the host's sum does
host_fold_add(acc, e) ==
    IF e = <<>> THEN HOk(acc)
    ELSE LET r == host_add(acc, PyInt(Head(e)))
         IN IF r.ok THEN host_fold_add(r.p, Tail(e)) ELSE r

\* sum(iterable, /, start=0)
host_sum(pargs, pkw) ==
    IF Len(pargs) \notin {1, 2} \/ ~(DOMAIN pkw \subseteq {"start"})
       \/ (Len(pargs) = 2 /\ DOMAIN pkw # {})
    THEN HRaise("TypeError")
    ELSE LET start == IF Len(pargs) = 2 THEN pargs[2]
                      ELSE IF "start" \in DOMAIN pkw THEN pkw["start"]
                      ELSE PyInt(0)
         IN IF ~IsSeqP(pargs[1]) \/ start.t = "str" THEN HRaise("TypeError")
            ELSE host_fold_add(start, pargs[1].s)

\* tuple(iterable=()) and list(iterable=())
host_tuple_list(t, pargs, pkw) ==
    IF DOMAIN pkw # {} \/ Len(pargs) > 1 THEN HRaise("TypeError")
    ELSE IF pargs = <<>> THEN HOk([t |-> t, i |-> 0, s |-> <<>>, n |-> ""])
    ELSE IF IsSeqP(pargs[1]) THEN HOk([pargs[1] EXCEPT !.t = t])
    ELSE HRaise("TypeError")

RECURSIVE IntExtreme(_, _)
\* the least (is_max FALSE) or greatest (is_max TRUE) of a non-empty sequence of ints
IntExtreme(is_max, e) ==
    IF Len(e) = 1 THEN e[1]
    ELSE LET r == IntExtreme(is_max, Tail(e))
         IN IF (is_max /\ r > Head(e)) \/ (~is_max /\ r < Head(e)) THEN r ELSE Head(e)

RECURSIVE SeqExtreme(_, _)
\* the same for a non-empty sequence of payloads that are sequences of one type
SeqExtreme(is_max, ps) ==
    IF Len(ps) = 1 THEN ps[1]
    ELSE LET r == SeqExtreme(is_max, Tail(ps))
         IN IF (is_max /\ LexLess(Head(ps).s, r.s)) \/ (~is_max /\ LexLess(r.s, Head(ps).s))
            THEN r ELSE Head(ps)

\* min(...) and max(...): one iterable, or two or more values
host_min_max(is_max, pargs, pkw) ==
    IF DOMAIN pkw # {} \/ pargs = <<>> THEN HRaise("TypeError")
    ELSE IF Len(pargs) = 1
    THEN IF ~IsSeqP(pargs[1]) THEN HRaise("TypeError")
         ELSE IF pargs[1].s = <<>> THEN HRaise("ValueError")
         ELSE HOk(PyInt(IntExtreme(is_max, pargs[1].s)))
    ELSE IF \A k \in 1..Len(pargs) : pargs[k].t = "int"
    THEN HOk(PyInt(IntExtreme(is_max, [k \in 1..Len(pargs) |-> pargs[k].i])))
    ELSE IF IsSeqP(pargs[1]) /\ \A k \in 1..Len(pargs) : pargs[k].t = pargs[1].t
    THEN HOk(SeqExtreme(is_max, pargs))
    ELSE HRaise("TypeError")

\* the operators of one or two positional operands, which take no keywords
host_operator(fn, pargs, pkw) ==
    IF DOMAIN pkw # {} THEN HRaise("TypeError")
    ELSE IF fn \in {"neg", "abs", "len"}
    THEN IF Len(pargs) # 1 THEN HRaise("TypeError")
         ELSE IF fn = "neg" THEN host_neg(pargs[1])
         ELSE IF fn = "abs" THEN host_abs(pargs[1])
         ELSE host_len(pargs[1])
    ELSE IF Len(pargs) # 2 THEN HRaise("TypeError")
    ELSE IF fn \in {"add", "iadd"} THEN host_add(pargs[1], pargs[2])
    ELSE IF fn = "sub" THEN host_sub(pargs[1], pargs[2])
    ELSE IF fn = "mul" THEN host_mul(pargs[1], pargs[2])
    ELSE IF fn = "floordiv" THEN host_floordiv(pargs[1], pargs[2])
    ELSE host_getitem(pargs[1], pargs[2])

\* self.as_python_constant()(*payloads, **payloads): the direct evaluation of fn
HostApply(fn, pargs, pkw) ==
    IF fn = "sum" THEN host_sum(pargs, pkw)
    ELSE IF fn \in {"tuple", "list"} THEN host_tuple_list(fn, pargs, pkw)
    ELSE IF fn \in {"min", "max"} THEN host_min_max(fn = "max", pargs, pkw)
    ELSE host_operator(fn, pargs, pkw)

(***************************************************************************)
(* Symbolic values (VariableTracker and its subclasses).  One record shape  *)
(* for every variant: kind is the class, value the payload of a constant,   *)
(* items the elements of a list / tuple, name the builtin's fn, the module  *)
(* key or the attribute name, proxy the graph node of a tensor.             *)
(***************************************************************************)
NoNode == [op |-> "", target |-> "", args |-> <<>>, kwargs |-> <<>>]

VT(kind, value, items, name, proxy, guards) ==
    [kind |-> kind, value |-> value, items |-> items, name |-> name,
     proxy |-> proxy, guards |-> guards, source |-> FALSE, mutable_local |-> FALSE]

NoValue == VT("None", PyNone, <<>>, "", NoNode, {})

ConstantVariable(p, guards) == VT("ConstantVariable", p, <<>>, "", NoNode, guards)

TensorVariable(proxy, guards) == VT("TensorVariable", PyNone, <<>>, "", proxy, guards)

ListVariable(items, guards) == VT("ListVariable", PyNone, items, "", NoNode, guards)

TupleVariable(items, guards) == VT("TupleVariable", PyNone, items, "", NoNode, guards)

\* a TensorVariable whose size is known: the payload slot holds the size
SizedTensorVariable(proxy, size, guards) ==
    VT("TensorVariable", PyTuple(size), <<>>, "", proxy, guards)

\* TensorVariable.size: None (here the empty tuple) when the size is not known
size(v) == IF v.kind = "TensorVariable" /\ v.value.t = "tuple" THEN v.value.s ELSE <<>>

\* a list iterator at position index (from 0) of items; tag is the identity of its
\* MutableLocal, by which the trace state tells the iterators apart
ListIteratorVariable(items, index, tag, guards) ==
    [VT("ListIteratorVariable", PyInt(index), items, tag, NoNode, guards)
        EXCEPT !.mutable_local = TRUE]

BuiltinVariable(fn, guards) == VT("BuiltinVariable", PyNone, <<>>, fn, NoNode, guards)

UserDefinedObjectVariable(name, guards) ==
    VT("UserDefinedObjectVariable", PyNone, <<>>, name, NoNode, guards)

\* a graph input: the node a TensorVariable of the traced function's arguments wraps
Placeholder(target) == [op |-> "placeholder", target |-> target, args |-> <<>>, kwargs |-> <<>>]

\* the values of the operands, args first, then the keyword operands
Operands(args, kwargs) ==
    {args[k] : k \in 1..Len(args)} \cup {kwargs[k] : k \in DOMAIN kwargs}

\* VariableTracker.propagate: the guards of every value given, merged
propagate(vts) == [guards |-> UNION {v.guards : v \in vts}]

\* VariableTracker.add_options: the value with the options' guards added
add_options(v, options) == [v EXCEPT !.guards = @ \cup options.guards]

\* VariableTracker.is_python_constant, for the variants of the model
is_python_constant(v) == v.kind = "ConstantVariable"

\* utils.check_constant_args: every positional and keyword operand is a constant
check_constant_args(args, kwargs) ==
    \A v \in Operands(args, kwargs) : v.kind = "ConstantVariable"

\* VariableTracker.has_unpack_var_sequence: lists, tuples and constant containers
has_unpack_var_sequence(v) ==
    \/ v.kind \in {"ListVariable", "TupleVariable"}
    \/ v.kind = "ConstantVariable" /\ IsSeqP(v.value)

\* VariableTracker.unpack_var_sequence: the elements as symbolic values
unpack_var_sequence(v) ==
    IF v.kind = "ConstantVariable"
    THEN [k \in 1..Len(v.value.s) |-> ConstantVariable(PyInt(v.value.s[k]), v.guards)]
    ELSE v.items

\* VariableTracker.as_proxy / utils.proxy_args_kwargs: an operand as a node argument
as_proxy(v) ==
    IF v.kind = "TensorVariable" THEN [pk |-> "node", ref |-> v.proxy, const |-> PyNone]
    ELSE IF v.kind = "ConstantVariable" THEN [pk |-> "const", ref |-> NoNode, const |-> v.value]
    ELSE [pk |-> "opaque", ref |-> NoNode, const |-> PyNone]

proxy_args_kwargs(args, kwargs) ==
    [args |-> [k \in 1..Len(args) |-> as_proxy(args[k])],
     kwargs |-> [k \in DOMAIN kwargs |-> as_proxy(kwargs[k])]]

\* tx.output.create_proxy("call_function", fn, args, kwargs): the node requested
create_proxy(fn, pa) ==
    [op |-> "call_function", target |-> fn, args |-> pa.args, kwargs |-> pa.kwargs]

(***************************************************************************)
(* What a handler or a dispatch ends in.  kind is "return" (value), "none"  *)
(* (a handler that returned None) or "raise" (exc; argument tells whether   *)
(* the text of a TypeError holds the word "argument"; msg and op are the    *)
(* diagnostic of an Unsupported).  added and removed count the entries the  *)
(* call put into and took out of the failure statistics, requests lists the *)
(* nodes it inserted into the output graph.  path, handler and reply record *)
(* which steps of the outermost call_function ran, reads the accesses of    *)
(* the attribute resolver to the module registry ("registry"), to a host    *)
(* object or a receiver ("lookup") and to the Value Builder Port            *)
(* ("builder"), in order, replaced the pairs (old, new) handed to           *)
(* tx.replace_all, in order.                                                *)
(***************************************************************************)
Defer ==
    [kind |-> "none", exc |-> "", argument |-> FALSE, value |-> NoValue,
     msg |-> "", op |-> "", added |-> 0, removed |-> 0, requests |-> <<>>,
     path |-> "", handler |-> "", reply |-> "", reads |-> <<>>, replaced |-> <<>>]

Return(v) == [Defer EXCEPT !.kind = "return", !.value = v]

Raise(exc) == [Defer EXCEPT !.kind = "raise", !.exc = exc]

\* a TypeError of the call machinery: "takes 3 positional arguments but ...",
\* "got an unexpected keyword argument ..."
SignatureMismatch == [Raise("TypeError") EXCEPT !.argument = TRUE]

\* utils.unimplemented: raise Unsupported(msg), which adds itself to the statistics
unimplemented(msg, op) ==
    [Raise("Unsupported") EXCEPT !.msg = msg, !.op = op, !.added = 1]

\* r, reached after prev ran: the statistics and the graph keep what prev did
After(prev, r) ==
    [r EXCEPT !.added = @ + prev.added, !.removed = @ + prev.removed,
              !.requests = prev.requests \o @, !.reads = prev.reads \o @,
              !.replaced = prev.replaced \o @]

(***************************************************************************)
(* The classifier sets, for the operations of the model.                    *)
(***************************************************************************)
\* BuiltinVariable._fx_graph_functions
fx_graph_functions == {"neg", "mul", "floordiv", "add", "sub", "getitem", "iadd"}

\* BuiltinVariable._constant_fold_functions
constant_fold_functions ==
    {"abs", "len", "list", "max", "min", "sum", "tuple"} \cup fx_graph_functions

can_constant_fold_through(self) == self.name \in constant_fold_functions

can_insert_in_graph(self) == self.name \in fx_graph_functions

\* tensor_args taking a ConstantVariable for a tensor as well
tensor_args_counts_constants(args, kwargs) ==
    \E v \in Operands(args, kwargs) : v.kind \in {"TensorVariable", "ConstantVariable"}

\* BuiltinVariable.tensor_args: some operand is a TensorVariable
tensor_args(args, kwargs) ==
    \E v \in Operands(args, kwargs) : v.kind = "TensorVariable"

\* the call_<name> methods of BuiltinVariable that the model covers
Handlers ==
    {"min", "max", "tuple", "list", "mul", "len", "add", "iadd", "getitem",
     "sum", "reduce", "getattr", "zip", "next"}

\* whether handler(tx, *args, **kwargs) binds to the handler's parameters
Binds(fn, args, kwargs) ==
    IF fn \in {"len", "add", "iadd", "getitem"} THEN TRUE
    ELSE IF fn = "sum" THEN Len(args) = 1
    ELSE IF fn \in {"min", "max", "mul"} THEN Len(args) = 2 /\ DOMAIN kwargs = {}
    ELSE IF fn \in {"tuple", "list"} THEN Len(args) <= 1 /\ DOMAIN kwargs = {}
    ELSE IF fn = "zip" THEN DOMAIN kwargs = {}
    ELSE IF fn = "next" THEN Len(args) = 1 /\ DOMAIN kwargs = {}
    ELSE IF fn = "getattr"
    THEN \/ Len(args) \in {2, 3} /\ DOMAIN kwargs = {}
         \/ Len(args) = 2 /\ DOMAIN kwargs = {"default"}
    ELSE Len(args) \in {2, 3} /\ DOMAIN kwargs = {}

(***************************************************************************)
(* The collaborators a handler calls.  env is what they answer during one   *)
(* call: env.port is the Output Graph Port's reply to an insertion          *)
(* ("accept" or "reject"), env.receiver tells whether a ConstantVariable    *)
(* represents the method asked of it ("capable") or not ("unsupported").    *)
(***************************************************************************)
Envs == [port : {"accept", "reject"}, receiver : {"capable", "unsupported"}]

\* the operation a double-dispatched method stands for
MethodOp(name) ==
    CASE name = "__len__" -> "len"
      [] name = "__add__" -> "add"
      [] name = "__iadd__" -> "iadd"
      [] OTHER -> "getitem"

\* receiver.call_method(tx, name, args, kwargs): the receiver's own length,
\* addition and index access
call_method(recv, name, args, kwargs, env) ==
    LET options == propagate({recv} \cup Operands(args, kwargs))
        host == HostApply(MethodOp(name),
                          <<recv.value>> \o [k \in 1..Len(args) |-> args[k].value],
                          [k \in DOMAIN kwargs |-> kwargs[k].value])
        idx == IF args[1].value.i < 0 THEN args[1].value.i + Len(recv.items)
               ELSE args[1].value.i
    IN IF name = "__getattr__"
       THEN IF recv.kind = "UserDefinedObjectVariable" /\ env.receiver = "capable"
            THEN Return(VT("GetAttrVariable", PyNone, <<recv>>, args[1].value.n, NoNode,
                           options.guards))
            ELSE unimplemented("call_method", name)
       ELSE IF recv.kind = "ConstantVariable"
       THEN IF env.receiver = "capable" /\ check_constant_args(args, kwargs) /\ host.ok
            THEN Return(ConstantVariable(host.p, options.guards))
            ELSE unimplemented("const method call", name)
       ELSE IF recv.kind \in {"ListVariable", "TupleVariable"} /\ DOMAIN kwargs = {}
       THEN IF name = "__len__" /\ args = <<>>
            THEN Return(ConstantVariable(PyInt(Len(recv.items)), options.guards))
            ELSE IF name = "__getitem__" /\ Len(args) = 1
                    /\ args[1].kind = "ConstantVariable" /\ args[1].value.t = "int"
                    /\ idx >= 0 /\ idx < Len(recv.items)
            THEN Return(add_options(recv.items[idx + 1], options))
            ELSE IF name \in {"__add__", "__iadd__"} /\ Len(args) = 1
                    /\ args[1].kind = recv.kind
            THEN Return([recv EXCEPT !.items = @ \o args[1].items,
                                     !.guards = options.guards])
            ELSE unimplemented("call_method", name)
       ELSE unimplemented("call_method", name)

\* TorchVariable(fn).call_function(tx, args, kwargs): a node of the tensor library
torch_call_function(target, args, kwargs, env) ==
    LET node == create_proxy(target, proxy_args_kwargs(args, kwargs))
    IN IF env.port = "accept"
       THEN [Return(TensorVariable(node, propagate(Operands(args, kwargs)).guards))
                EXCEPT !.requests = <<node>>]
       ELSE unimplemented("torch op", target)

(***************************************************************************)
(* The specialized handlers.                                                *)
(***************************************************************************)
RECURSIVE call_function(_, _, _, _)

\* UserFunctionVariable.call_function: the body of a user function is traced inline;
\* what it returns is kept symbolic, as the application of the function to its operands
inline_user_function_return(f, args, kwargs, env) ==
    IF env.receiver = "capable"
    THEN Return(VT("InlinedValue", PyNone, args, f.name, NoNode,
                   propagate({f} \cup Operands(args, kwargs)).guards))
    ELSE unimplemented("inline", f.name)

\* f.call_function(tx, args, {}) for a symbolic value f
value_call_function(f, args, kwargs, env) ==
    IF f.kind = "BuiltinVariable" THEN call_function(f, args, kwargs, env)
    ELSE IF f.kind = "UserFunctionVariable"
    THEN inline_user_function_return(f, args, kwargs, env)
    ELSE unimplemented("call_function", f.kind)

_call_min_max(self, a, b, env) ==
    IF tensor_args(<<a, b>>, <<>>)
    THEN LET a2 == IF a.kind # "TensorVariable" THEN b ELSE a
             b2 == IF a.kind # "TensorVariable" THEN a ELSE b
         IN IF is_python_constant(b2)
            THEN torch_call_function("clamp", <<a2>>,
                     IF self.name = "max" THEN [min |-> b2] ELSE [max |-> b2], env)
            ELSE torch_call_function(IF self.name = "max" THEN "maximum" ELSE "minimum",
                                     <<a2, b2>>, <<>>, env)
    ELSE Defer

\* BaseListVariable.cls_for
cls_for(fn) == IF fn = "list" THEN "ListVariable" ELSE "TupleVariable"

_call_iter_tuple_list(self, args) ==
    IF args = <<>>
    THEN Return([VT(cls_for(self.name), PyNone, <<>>, "", NoNode, {})
                    EXCEPT !.mutable_local = TRUE])
    ELSE IF has_unpack_var_sequence(args[1])
    THEN Return([VT(cls_for(self.name), PyNone, unpack_var_sequence(args[1]), "", NoNode, {})
                    EXCEPT !.mutable_local = TRUE])
    ELSE Defer

\* a.items * b.as_python_constant() raises a TypeError ("can't multiply sequence by
\* non-int of type ...") for a payload that is no int
call_mul(a, b) ==
    IF a.kind \in {"ListVariable", "TupleVariable"} /\ b.kind = "ConstantVariable"
    THEN IF b.value.t = "int" THEN Return([a EXCEPT !.items = Repeat(a.items, b.value.i)])
         ELSE Raise("TypeError")
    ELSE IF b.kind \in {"ListVariable", "TupleVariable"} /\ a.kind = "ConstantVariable"
    THEN IF a.value.t = "int" THEN Return([b EXCEPT !.items = Repeat(b.items, a.value.i)])
         ELSE Raise("TypeError")
    ELSE Defer

\* call_len, call_add, call_iadd, call_getitem: args[0].call_method(tx, name, args[1:], kwargs)
call_double_dispatch(name, args, kwargs, env) ==
    IF args = <<>> THEN Raise("IndexError")
    ELSE call_method(args[1], name, Tail(args), kwargs, env)

RECURSIVE reduce_loop(_, _, _, _, _)
\* for element in items: value = function.call_function(tx, [value, element], {})
reduce_loop(function, value, items, done, env) ==
    IF items = <<>> THEN After(done, Return(value))
    ELSE LET r == After(done, value_call_function(function, <<value, Head(items)>>, <<>>, env))
         IN IF r.kind = "return" THEN reduce_loop(function, r.value, Tail(items), r, env)
            ELSE r

\* call_reduce seeding from the first element and folding over it once more
call_reduce_repeats_first(args, env) ==
    LET function == args[1]
        iterable == args[2]
        items == unpack_var_sequence(iterable)
    IN IF has_unpack_var_sequence(iterable)
       THEN IF Len(args) = 2
            THEN IF items = <<>> THEN Raise("IndexError")
                 ELSE reduce_loop(function, items[1], items, Defer, env)
            ELSE reduce_loop(function, args[3], items, Defer, env)
       ELSE Defer

call_reduce(args, env) ==
    LET function == args[1]
        iterable == args[2]
        items == unpack_var_sequence(iterable)
    IN IF has_unpack_var_sequence(iterable)
       THEN IF Len(args) = 2
            THEN IF items = <<>> THEN Raise("IndexError")
                 ELSE reduce_loop(function, items[1], Tail(items), Defer, env)
            ELSE reduce_loop(function, args[3], items, Defer, env)
       ELSE Defer

\* call_sum with start as the seed of the accumulation over every item
call_sum_seeds_start(self, seq, kwargs, env) ==
    LET start == IF "start" \in DOMAIN kwargs THEN kwargs["start"]
                 ELSE ConstantVariable(PyInt(0), {})
    IN IF has_unpack_var_sequence(seq)
       THEN IF ~is_python_constant(start) THEN Raise("NotImplementedError")
            ELSE IF DOMAIN kwargs \ {"start"} # {} THEN Raise("AssertionError")
            ELSE call_function(BuiltinVariable("reduce", {}),
                     <<BuiltinVariable("add", {}), TupleVariable(unpack_var_sequence(seq), {}),
                       ConstantVariable(start.value, self.guards \cup seq.guards)>>,
                     <<>>, env)
       ELSE Defer

call_sum(self, seq, kwargs, env) ==
    LET start == IF "start" \in DOMAIN kwargs THEN kwargs["start"]
                 ELSE ConstantVariable(PyInt(0), {})
        unpacked == unpack_var_sequence(seq)
        items == IF start.value.t = "int" THEN PySliceFrom(unpacked, start.value.i)
                 ELSE unpacked
    IN IF has_unpack_var_sequence(seq)
       THEN IF ~is_python_constant(start) THEN Raise("NotImplementedError")
            ELSE IF DOMAIN kwargs \ {"start"} # {} THEN Raise("AssertionError")
            ELSE IF start.value.t \notin {"int", "none"} THEN Raise("TypeError")
            ELSE call_function(BuiltinVariable("reduce", {}),
                     <<BuiltinVariable("add", {}), TupleVariable(items, {}),
                       ConstantVariable(PyInt(0), self.guards \cup seq.guards)>>,
                     <<>>, env)
       ELSE Defer

\* ListIteratorVariable.next_variables: the item at the position, with the
\* iterator's guards, and the iterator one position on, with a MutableLocal of its own
next_variables(arg) ==
    [val |-> add_options(arg.items[arg.value.i + 1], [guards |-> arg.guards]),
     next_iter |-> ListIteratorVariable(arg.items, arg.value.i + 1, arg.name \o "'",
                                        arg.guards)]

\* call_next without tx.replace_all: the trace state keeps the old iterator
call_next_keeps_binding(arg, tx) ==
    IF arg.kind = "ListIteratorVariable"
    THEN IF arg.value.i >= Len(arg.items) THEN Raise("StopIteration")
         ELSE Return(next_variables(arg).val)
    ELSE Defer

\* call_next advancing the iterator bound to x in the trace state, not its operand
call_next_reads_binding(arg, tx) ==
    LET bound == tx.symbolic_locals.x
    IN IF arg.kind = "ListIteratorVariable"
       THEN IF bound.value.i >= Len(bound.items) THEN Raise("StopIteration")
            ELSE [Return(next_variables(bound).val)
                     EXCEPT !.replaced = <<[old |-> bound,
                                            new |-> next_variables(bound).next_iter]>>]
       ELSE Defer

call_next(arg, tx) ==
    IF arg.kind = "ListIteratorVariable"
    THEN IF arg.value.i >= Len(arg.items) THEN Raise("StopIteration")
         ELSE [Return(next_variables(arg).val)
                  EXCEPT !.replaced = <<[old |-> arg, new |-> next_variables(arg).next_iter]>>]
    ELSE Defer

\* the least of a non-empty sequence of ints: functools.reduce(min, ...), min(len ...)
RECURSIVE MinOf(_)
MinOf(ns) ==
    IF Len(ns) = 1 THEN ns[1]
    ELSE LET m == MinOf(Tail(ns)) IN IF ns[1] <= m THEN ns[1] ELSE m

RECURSIVE zip_getitems(_, _, _, _, _, _, _)
\* the nested loops of the tensor branch of call_zip: for i in range(out_size),
\* for arg in args, BuiltinVariable(operator.getitem, **options).call_function(
\* tx, [arg, ConstantVariable(i)], {}); j counts the calls, vals keeps their results
zip_getitems(options, args, out_size, j, done, vals, tx) ==
    LET n == Len(args)
        i == (j - 1) \div n
        k == ((j - 1) % n) + 1
        r == After(done, call_function(BuiltinVariable("getitem", options.guards),
                                       <<args[k], ConstantVariable(PyInt(i), {})>>, <<>>, tx))
    IN IF j > out_size * n
       THEN After(done, Return(TupleVariable(
                [a \in 1..out_size |->
                    TupleVariable([b \in 1..n |-> vals[(a - 1) * n + b]], options.guards)],
                options.guards)))
       ELSE IF r.kind = "return"
       THEN zip_getitems(options, args, out_size, j + 1, r, Append(vals, r.value), tx)
       ELSE r

\* call_zip stopping one item short of the shortest operand
call_zip_drops_last(self, args, tx) ==
    LET options == propagate({self} \cup Operands(args, <<>>))
        unpacked == [k \in 1..Len(args) |-> unpack_var_sequence(args[k])]
        shortest == IF args = <<>> THEN 0
                    ELSE MinOf([k \in 1..Len(args) |-> Len(unpacked[k])])
        dropped == IF shortest > 0 THEN shortest - 1 ELSE 0
    IN IF \A k \in 1..Len(args) : has_unpack_var_sequence(args[k])
       THEN Return(TupleVariable(
                [i \in 1..dropped |->
                    TupleVariable([k \in 1..Len(args) |-> unpacked[k][i]], options.guards)],
                options.guards))
       ELSE IF \A k \in 1..Len(args) : args[k].kind = "TensorVariable" /\ size(args[k]) # <<>>
       THEN zip_getitems(options, args,
                         MinOf([k \in 1..Len(args) |-> size(args[k])[1]]), 1, Defer, <<>>, tx)
       ELSE Defer

call_zip(self, args, tx) ==
    LET options == propagate({self} \cup Operands(args, <<>>))
        unpacked == [k \in 1..Len(args) |-> unpack_var_sequence(args[k])]
        shortest == IF args = <<>> THEN 0
                    ELSE MinOf([k \in 1..Len(args) |-> Len(unpacked[k])])
    IN IF \A k \in 1..Len(args) : has_unpack_var_sequence(args[k])
       THEN Return(TupleVariable(
                [i \in 1..shortest |->
                    TupleVariable([k \in 1..Len(args) |-> unpacked[k][i]], options.guards)],
                options.guards))
       ELSE IF \A k \in 1..Len(args) : args[k].kind = "TensorVariable" /\ size(args[k]) # <<>>
       THEN zip_getitems(options, args,
                         MinOf([k \in 1..Len(args) |-> size(args[k])[1]]), 1, Defer, <<>>, tx)
       ELSE Defer

(***************************************************************************)
(* The attribute resolver, call_getattr, and the host objects it reads.     *)
(***************************************************************************)
\* the module registered under the key "m": its instance fields, sub-modules,
\* parameters and buffers, and the members of its class
ModuleDict == {"field"}
ModuleSubmodules == {"sub"}
ModuleParameters == {"weight"}
ModuleBuffers == {"buf"}
ModuleClass ==
    [prop |-> "property", cm |-> "classmethod", sm |-> "staticmethod",
     forward |-> "function", slot |-> "other"]

\* the external namespace of a TorchVariable: the members that may enter the
\* graph, the disallowed literals and the other disallowed members
TorchMembers == [relu |-> "allowed", e |-> "literal", manual_seed |-> "other"]

\* the member table of the host module of a PythonModuleVariable
PythonModuleDict == {"helper"}

\* VariableBuilder(tx, source)(value): the Value Builder Port
VariableBuilder(name) ==
    [VT("BuiltVariable", PyNone, <<>>, name, NoNode, {"g_v"}) EXCEPT !.source = TRUE]

\* VariableTracker.add_guards
add_guards(v, guards) == [v EXCEPT !.guards = @ \cup guards]

\* obj.get_var_attr(tx, name) of a tensor, a named tuple or a constant
get_var_attr(obj, name) == ConstantVariable(PyStr(name), {})

\* UserFunctionVariable(fget, guards=guards).call_function(tx, [obj], {})
call_property_getter(name, guards, obj, env) ==
    IF env.receiver = "capable"
    THEN Return(VT("InlinedValue", PyNone, <<>>, name, NoNode, guards \cup obj.guards))
    ELSE unimplemented("inline", name)

\* r, reached after the accesses evs
Reads(evs, r) == [r EXCEPT !.reads = evs \o @]

\* the module branch with the store hit returned as the builder made it, without
\* add_guards(guards)
nn_module_getattr_drops_guards(obj, name, options, env) ==
    LET WithOptions(v) == [v EXCEPT !.guards = options.guards, !.source = obj.source]
    IN IF ~obj.source
       THEN Reads(<<"registry">>, unimplemented("GETATTR with no source", "getattr"))
       ELSE IF name \in ModuleDict \cup ModuleSubmodules \cup ModuleParameters \cup ModuleBuffers
       THEN Reads(<<"registry", "lookup", "builder">>,
                  Return(VariableBuilder(name)))
       ELSE IF name \notin DOMAIN ModuleClass
       THEN Reads(<<"registry", "lookup">>, Raise("AttributeError"))
       ELSE IF ModuleClass[name] = "property"
       THEN Reads(<<"registry", "lookup">>,
                  call_property_getter(name, options.guards, obj, env))
       ELSE IF ModuleClass[name] = "classmethod"
       THEN Reads(<<"registry", "lookup">>,
                  Return(WithOptions(VT("UserMethodVariable", PyNone,
                      <<UserDefinedObjectVariable("type", options.guards)>>, name, NoNode, {}))))
       ELSE IF ModuleClass[name] = "staticmethod"
       THEN Reads(<<"registry", "lookup">>,
                  Return(WithOptions(VT("UserFunctionVariable", PyNone, <<>>, name, NoNode, {}))))
       ELSE IF ModuleClass[name] = "function"
       THEN Reads(<<"registry", "lookup">>,
                  Return(WithOptions(VT("UserMethodVariable", PyNone, <<obj>>, name, NoNode, {}))))
       ELSE Reads(<<"registry", "lookup">>, unimplemented("class property", "getattr"))

nn_module_getattr(obj, name, options, env) ==
    LET WithOptions(v) == [v EXCEPT !.guards = options.guards, !.source = obj.source]
    IN IF ~obj.source
       THEN Reads(<<"registry">>, unimplemented("GETATTR with no source", "getattr"))
       ELSE IF name \in ModuleDict \cup ModuleSubmodules \cup ModuleParameters \cup ModuleBuffers
       THEN Reads(<<"registry", "lookup", "builder">>,
                  Return(add_guards(VariableBuilder(name), options.guards)))
       ELSE IF name \notin DOMAIN ModuleClass
       THEN Reads(<<"registry", "lookup">>, Raise("AttributeError"))
       ELSE IF ModuleClass[name] = "property"
       THEN Reads(<<"registry", "lookup">>,
                  call_property_getter(name, options.guards, obj, env))
       ELSE IF ModuleClass[name] = "classmethod"
       THEN Reads(<<"registry", "lookup">>,
                  Return(WithOptions(VT("UserMethodVariable", PyNone,
                      <<UserDefinedObjectVariable("type", options.guards)>>, name, NoNode, {}))))
       ELSE IF ModuleClass[name] = "staticmethod"
       THEN Reads(<<"registry", "lookup">>,
                  Return(WithOptions(VT("UserFunctionVariable", PyNone, <<>>, name, NoNode, {}))))
       ELSE IF ModuleClass[name] = "function"
       THEN Reads(<<"registry", "lookup">>,
                  Return(WithOptions(VT("UserMethodVariable", PyNone, <<obj>>, name, NoNode, {}))))
       ELSE Reads(<<"registry", "lookup">>, unimplemented("class property", "getattr"))

\* the two checks with the one on the default left out
getattr_preconditions_accept_default(name_var, has_default) ==
    IF ~is_python_constant(name_var) THEN unimplemented("non-const getattr name", "getattr")
    ELSE Defer

\* the two checks at the head of call_getattr; Defer when both pass
getattr_preconditions(name_var, has_default) ==
    IF ~is_python_constant(name_var) THEN unimplemented("non-const getattr name", "getattr")
    ELSE IF has_default THEN unimplemented("getattr with default", "getattr")
    ELSE Defer

\* the branches of call_getattr, taken once the preconditions hold
getattr_branches(self, obj, name_var, env) ==
    LET options == propagate({self, obj, name_var})
        name == name_var.value.n
        WithOptions(v) == [v EXCEPT !.guards = options.guards, !.source = obj.source]
        GetAttrVariable == WithOptions(VT("GetAttrVariable", PyNone, <<obj>>, name, NoNode, {}))
    IN IF obj.kind = "NNModuleVariable" THEN nn_module_getattr(obj, name, options, env)
       ELSE IF obj.kind \in {"TensorVariable", "NamedTupleVariable", "ConstantVariable"}
       THEN IF env.receiver = "capable"
            THEN Reads(<<"lookup">>,
                       Return(add_guards([get_var_attr(obj, name) EXCEPT !.source = obj.source],
                                         options.guards)))
            ELSE Reads(<<"lookup">>, Return(GetAttrVariable))
       ELSE IF obj.kind = "TorchVariable"
       THEN IF name \notin DOMAIN TorchMembers THEN Reads(<<"lookup">>, Raise("AttributeError"))
            ELSE IF TorchMembers[name] = "allowed"
            THEN Reads(<<"lookup">>,
                       Return(WithOptions(VT("TorchVariable", PyNone, <<>>, name, NoNode, {}))))
            ELSE IF TorchMembers[name] = "literal"
            THEN Reads(<<"lookup">>, Return(WithOptions(ConstantVariable(PyStr(name), {}))))
            ELSE Reads(<<"lookup", "builder">>,
                       Return(add_guards(VariableBuilder(name), options.guards)))
       ELSE IF obj.kind = "PythonModuleVariable"
       THEN IF name \notin PythonModuleDict THEN Reads(<<"lookup">>, Raise("KeyError"))
            ELSE Reads(<<"lookup", "builder">>,
                       Return(add_guards(VariableBuilder(name), options.guards)))
       ELSE IF obj.kind = "UserDefinedObjectVariable"
       THEN Reads(<<"lookup">>,
                  call_method(obj, "__getattr__", <<ConstantVariable(PyStr(name), {})>>, <<>>,
                              env))
       ELSE IF obj.kind = "UserFunctionVariable" /\ name \in {"__name__", "__module__"}
       THEN Reads(<<"lookup">>, Return(ConstantVariable(PyStr(name), propagate({obj}).guards)))
       ELSE Return(GetAttrVariable)

call_getattr(self, obj, name_var, has_default, env) ==
    IF getattr_preconditions(name_var, has_default).kind = "raise"
    THEN getattr_preconditions(name_var, has_default)
    ELSE getattr_branches(self, obj, name_var, env)

\* getattr(self, f"call_{self.fn.__name__}", None) and handler(tx, *args, **kwargs)
run_handler(self, args, kwargs, env) ==
    LET fn == self.name
    IN IF ~Binds(fn, args, kwargs) THEN SignatureMismatch
       ELSE IF fn \in {"min", "max"} THEN _call_min_max(self, args[1], args[2], env)
       ELSE IF fn \in {"tuple", "list"} THEN _call_iter_tuple_list(self, args)
       ELSE IF fn = "mul" THEN call_mul(args[1], args[2])
       ELSE IF fn = "len" THEN call_double_dispatch("__len__", args, kwargs, env)
       ELSE IF fn = "add" THEN call_double_dispatch("__add__", args, kwargs, env)
       ELSE IF fn = "iadd" THEN call_double_dispatch("__iadd__", args, kwargs, env)
       ELSE IF fn = "getitem" THEN call_double_dispatch("__getitem__", args, kwargs, env)
       ELSE IF fn = "sum" THEN call_sum(self, args[1], kwargs, env)
       ELSE IF fn = "reduce" THEN call_reduce(args, env)
       ELSE IF fn = "zip" THEN call_zip(self, args, env)
       ELSE IF fn = "next" THEN call_next(args[1], env)
       ELSE call_getattr(self, args[1], args[2],
                         Len(args) = 3 \/ "default" \in DOMAIN kwargs, env)

(***************************************************************************)
(* BuiltinVariable.call_function, step by step.                             *)
(***************************************************************************)
Step(r, path, handler, reply) ==
    [r EXCEPT !.path = path, !.handler = handler, !.reply = reply]

\* the constant fold: ConstantVariable(self.fn(*payloads, **payloads), **options)
constant_fold(self, args, kwargs, options) ==
    LET host == HostApply(self.name, [k \in 1..Len(args) |-> args[k].value],
                          [k \in DOMAIN kwargs |-> kwargs[k].value])
    IN IF host.ok THEN Return(ConstantVariable(host.p, options.guards))
       ELSE Raise(host.exc)

\* VariableTracker.call_function: unimplemented(f"call_function {self} {args} {kwargs}")
super_call_function(self, args, kwargs) == unimplemented("call_function", self.name)

\* the dispatch without its last line: no fallback, the call returns None
fold_or_fallback_returns_none(self, args, kwargs, options, has_constant_handler, prev, handler) ==
    IF has_constant_handler
    THEN Step(After(prev, constant_fold(self, args, kwargs, options)), "fold", handler, "")
    ELSE Step(After(prev, Return(NoValue)), "fallback", handler, "")

\* what follows the handler: the constant fold, else the generic fallback
fold_or_fallback(self, args, kwargs, options, has_constant_handler, prev, handler) ==
    IF has_constant_handler
    THEN Step(After(prev, constant_fold(self, args, kwargs, options)), "fold", handler, "")
    ELSE Step(After(prev, super_call_function(self, args, kwargs)), "fallback", handler, "")

\* the handler step returning the handler's result as it is, without add_options
handler_step_drops_options(self, args, kwargs, options, has_constant_handler, env) ==
    LET h == run_handler(self, args, kwargs, env)
    IN IF self.name \notin Handlers
       THEN fold_or_fallback(self, args, kwargs, options, has_constant_handler, Defer, "absent")
       ELSE IF h.kind = "return" THEN Step(h, "handler", "result", "")
       ELSE IF h.kind = "none"
       THEN fold_or_fallback(self, args, kwargs, options, has_constant_handler, h, "none")
       ELSE IF h.exc = "TypeError"
       THEN IF h.argument
            THEN fold_or_fallback(self, args, kwargs, options, has_constant_handler, h,
                                  "TypeError")
            ELSE Step(After(h, Raise("AssertionError")), "handler_raise", "TypeError", "")
       ELSE IF h.exc = "Unsupported"
       THEN IF ~has_constant_handler THEN Step(h, "handler_raise", "Unsupported", "")
            ELSE fold_or_fallback(self, args, kwargs, options, has_constant_handler,
                                  [h EXCEPT !.removed = @ + 1], "Unsupported")
       ELSE Step(h, "handler_raise", h.exc, "")

\* the handler lookup, its call and the two except clauses
handler_step(self, args, kwargs, options, has_constant_handler, env) ==
    LET h == run_handler(self, args, kwargs, env)
    IN IF self.name \notin Handlers
       THEN fold_or_fallback(self, args, kwargs, options, has_constant_handler, Defer, "absent")
       ELSE IF h.kind = "return"
       THEN Step([h EXCEPT !.value = add_options(@, options)], "handler", "result", "")
       ELSE IF h.kind = "none"
       THEN fold_or_fallback(self, args, kwargs, options, has_constant_handler, h, "none")
       ELSE IF h.exc = "TypeError"
       THEN IF h.argument
            THEN fold_or_fallback(self, args, kwargs, options, has_constant_handler, h,
                                  "TypeError")
            ELSE Step(After(h, Raise("AssertionError")), "handler_raise", "TypeError", "")
       ELSE IF h.exc = "Unsupported"
       THEN IF ~has_constant_handler THEN Step(h, "handler_raise", "Unsupported", "")
            ELSE fold_or_fallback(self, args, kwargs, options, has_constant_handler,
                                  [h EXCEPT !.removed = @ + 1], "Unsupported")
       ELSE Step(h, "handler_raise", h.exc, "")

\* the rewrite to add without the swap of the two operands
rewrite_iadd_keeps_order(fn, args) ==
    IF fn = "iadd" /\ args[1].kind = "ConstantVariable"
    THEN [fn |-> "add", args |-> args]
    ELSE [fn |-> fn, args |-> args]

\* the in-place-add rewrite: fn, args = operator.add, [args[1], args[0]]
rewrite_iadd(fn, args) ==
    IF fn = "iadd" /\ args[1].kind = "ConstantVariable"
    THEN [fn |-> "add", args |-> <<args[2], args[1]>>]
    ELSE [fn |-> fn, args |-> args]

\* the branch with the TensorVariable built without the propagated options
graph_insertion_drops_options(self, args, kwargs, options, env) ==
    LET rw == rewrite_iadd(self.name, args)
        node == create_proxy(rw.fn, proxy_args_kwargs(rw.args, kwargs))
    IN IF self.name = "iadd"
          /\ (args = <<>> \/ (args[1].kind = "ConstantVariable" /\ Len(args) < 2))
       THEN Step(Raise("IndexError"), "rewrite", "skipped", "")
       ELSE IF env.port = "accept"
       THEN Step([Return(TensorVariable(node, {})) EXCEPT !.requests = <<node>>],
                 "graph", "skipped", "accept")
       ELSE Step(unimplemented("partial tensor op", self.name), "partial", "skipped", "reject")

\* the branch with a rejected insertion passed on to the handler lookup
graph_insertion_falls_through(self, args, kwargs, options, env) ==
    LET rw == rewrite_iadd(self.name, args)
        node == create_proxy(rw.fn, proxy_args_kwargs(rw.args, kwargs))
    IN IF self.name = "iadd"
          /\ (args = <<>> \/ (args[1].kind = "ConstantVariable" /\ Len(args) < 2))
       THEN Step(Raise("IndexError"), "rewrite", "skipped", "")
       ELSE IF env.port = "accept"
       THEN Step([Return(TensorVariable(node, options.guards)) EXCEPT !.requests = <<node>>],
                 "graph", "skipped", "accept")
       ELSE [handler_step(self, args, kwargs, options,
                          can_constant_fold_through(self) /\ check_constant_args(args, kwargs),
                          env) EXCEPT !.reply = "reject"]

\* the branch taken when can_insert_in_graph() and tensor_args
graph_insertion(self, args, kwargs, options, env) ==
    LET rw == rewrite_iadd(self.name, args)
        node == create_proxy(rw.fn, proxy_args_kwargs(rw.args, kwargs))
    IN IF self.name = "iadd"
          /\ (args = <<>> \/ (args[1].kind = "ConstantVariable" /\ Len(args) < 2))
       THEN Step(Raise("IndexError"), "rewrite", "skipped", "")
       ELSE IF env.port = "accept"
       THEN Step([Return(TensorVariable(node, options.guards)) EXCEPT !.requests = <<node>>],
                 "graph", "skipped", "accept")
       ELSE Step(unimplemented("partial tensor op", self.name), "partial", "skipped", "reject")

call_function(self, args, kwargs, env) ==
    LET constant_args == check_constant_args(args, kwargs)
        options == propagate({self} \cup Operands(args, kwargs))
        has_constant_handler == can_constant_fold_through(self) /\ constant_args
    IN IF can_insert_in_graph(self) /\ tensor_args(args, kwargs)
       THEN graph_insertion(self, args, kwargs, options, env)
       ELSE handler_step(self, args, kwargs, options, has_constant_handler, env)

(***************************************************************************)
(* The calls the interpreter feeds.                                         *)
(***************************************************************************)
\* sequences over S of length at most n
SeqsUpTo(S, n) == UNION {[1..k -> S] : k \in 0..n}

c1 == ConstantVariable(PyInt(1), {"g_c"})
cT == ConstantVariable(PyTuple(<<1, 2>>), {"g_k"})
cN == ConstantVariable(PyNone, {})
t1 == TensorVariable(Placeholder("x"), {"g_x"})
l1 == ListVariable(<<ConstantVariable(PyInt(1), {}), ConstantVariable(PyInt(2), {"g_i"})>>,
                   {"g_l"})
bAdd == BuiltinVariable("add", {"g_f"})

\* the operand values of the general calls
Pool == {c1, cT, cN, t1, l1, bAdd}

\* the keyword operands of the general calls
KwPool == {<<>>, [start |-> c1], [start |-> t1], [dim |-> c1]}

\* the operations fed: "id" stands for a builtin in neither classifier set and
\* without a call_<name> handler
Ops ==
    {"neg", "mul", "floordiv", "add", "sub", "getitem", "iadd", "abs", "len", "list",
     "tuple", "max", "min", "sum", "reduce", "id"}

Call(fn, args, kwargs) == [fn |-> fn, guards |-> {"g_b"}, args |-> args, kwargs |-> kwargs]

NoCall == Call("", <<>>, <<>>)

GeneralInputs ==
    {Call(fn, args, kwargs) : fn \in Ops, args \in SeqsUpTo(Pool, MaxArgs), kwargs \in KwPool}

\* the items and the start values of the sum calls
SumItems == {1, 2, 3}

SumSeqs ==
    UNION {{ListVariable([k \in 1..Len(e) |-> ConstantVariable(PyInt(e[k]), {})], {"g_l"}),
            TupleVariable([k \in 1..Len(e) |-> ConstantVariable(PyInt(e[k]), {"g_i"})], {}),
            ConstantVariable(PyTuple(e), {"g_k"})} : e \in SeqsUpTo(SumItems, MaxLen)}

SumStarts ==
    {<<>>, [start |-> cT]}
        \cup {[start |-> ConstantVariable(PyInt(k), {"g_s"})] : k \in (0 - MaxLen - 1)..(MaxLen + 1)}

SumInputs == {Call("sum", <<seq>>, kwargs) : seq \in SumSeqs, kwargs \in SumStarts}

\* the receivers, the names and the defaults of the getattr calls
WithSource(v) == [v EXCEPT !.source = TRUE]

GetattrReceivers ==
    {WithSource(VT("NNModuleVariable", PyNone, <<>>, "m", NoNode, {"g_m"})),
     VT("NNModuleVariable", PyNone, <<>>, "m", NoNode, {"g_m"}),
     WithSource(t1), c1, l1,
     VT("TorchVariable", PyNone, <<>>, "torch", NoNode, {"g_t"}),
     WithSource(VT("PythonModuleVariable", PyNone, <<>>, "math", NoNode, {"g_p"})),
     UserDefinedObjectVariable("obj", {"g_u"}),
     VT("UserFunctionVariable", PyNone, <<>>, "f", NoNode, {"g_f"})}

GetattrNames ==
    {"field", "sub", "weight", "buf", "prop", "cm", "sm", "forward", "slot", "relu", "e",
     "manual_seed", "helper", "__name__", "missing"}

GetattrInputs ==
    {Call("getattr", <<obj, name_var>> \o default, <<>>) :
        obj \in GetattrReceivers,
        name_var \in {ConstantVariable(PyStr(n), {"g_n"}) : n \in GetattrNames} \cup {t1},
        default \in {<<>>, <<c1>>}}
    \cup {Call("getattr", <<obj, ConstantVariable(PyStr("field"), {"g_n"})>>, [default |-> cN]) :
            obj \in GetattrReceivers}

\* the operands of the zip calls: lists of every length up to MaxLen, a list of
\* two other items, a constant tuple, tensors with a known leading dimension, a
\* tensor with a known empty size, a tensor of unknown size and a constant int
ZipItems == <<1, 2, 3, 1, 2, 3>>

ZipPool ==
    {ListVariable([k \in 1..n |-> ConstantVariable(PyInt(ZipItems[k]), {})], {"g_l"}) :
        n \in 0..MaxLen}
    \cup {TupleVariable(<<ConstantVariable(PyInt(4), {}), ConstantVariable(PyInt(5), {"g_i"})>>,
                        {"g_u"}),
          cT, c1, t1, SizedTensorVariable(Placeholder("s"), <<>>, {"g_s"})}
    \cup {SizedTensorVariable(Placeholder("y"), <<n, 3>>, {"g_y"}) : n \in 0..2}

ZipInputs == {Call("zip", args, <<>>) : args \in SeqsUpTo(ZipPool, MaxArgs)}

\* the reduce calls: a user function or the builtin add, folded over a list or a
\* tuple of up to MaxLen constant ints, with and without an initializer
fU == VT("UserFunctionVariable", PyNone, <<>>, "f", NoNode, {"g_f"})

ReduceSeqs ==
    UNION {{ListVariable([k \in 1..n |-> ConstantVariable(PyInt(ZipItems[k]), {})], {"g_l"}),
            TupleVariable([k \in 1..n |-> ConstantVariable(PyInt(ZipItems[k]), {"g_i"})], {})} :
           n \in 0..MaxLen}

ReduceInputs ==
    {Call("reduce", <<function, iterable>> \o initializer, <<>>) :
        function \in {fU, bAdd}, iterable \in ReduceSeqs, initializer \in {<<>>, <<c1>>}}

\* the iterators: itA is bound to x and to y in the trace state, itB to z, itFree
\* is bound nowhere
IterItems == [k \in 1..MaxLen |-> ConstantVariable(PyInt(k), {"g_e"})]

itA == ListIteratorVariable(IterItems, 0, "a", {"g_a"})
itB == ListIteratorVariable(IterItems, 0, "b", {"g_a"})
itFree == ListIteratorVariable(IterItems, 1, "free", {"g_a"})

\* the next calls on operands that are bound nowhere in the trace state
NextInputs ==
    {Call("next", args, <<>>) : args \in SeqsUpTo({itFree, l1, c1, t1}, MaxArgs)}

\* the calls fed while the iterator bound in the trace state is advanced
IterInputs ==
    {Call(fn, args, <<>>) : fn \in Ops \cup {"zip", "next"},
                            args \in SeqsUpTo(Pool \cup {itA, itFree}, 1)}

\* the mul calls of a list or a tuple with a constant int, on either side
MulInputs ==
    UNION {{Call("mul", <<seq, ConstantVariable(PyInt(n), {"g_n"})>>, <<>>),
            Call("mul", <<ConstantVariable(PyInt(n), {"g_n"}), seq>>, <<>>)} :
           seq \in {l1, TupleVariable(<<c1, t1>>, {"g_u"})}, n \in (0 - 1)..MaxLen}

Inputs == GeneralInputs \cup SumInputs \cup GetattrInputs \cup ZipInputs
          \cup ReduceInputs \cup NextInputs \cup MulInputs

(***************************************************************************)
(* The state machine.                                                       *)
(***************************************************************************)
\* no collaborator has answered yet
NoEnv == [port |-> "", receiver |-> ""]

\* VariableTracker.apply over the trace state: tx.replace_all(old, new) puts new in
\* place of every value that has the MutableLocal of old
replace_all(locals, old, new) ==
    [k \in DOMAIN locals |->
        IF locals[k].mutable_local /\ old.mutable_local /\ locals[k].name = old.name
        THEN new ELSE locals[k]]

RECURSIVE Rebind(_, _)
\* the trace state after the replacements of one call, in order
Rebind(locals, pairs) ==
    IF pairs = <<>> THEN locals
    ELSE Rebind(replace_all(locals, Head(pairs).old, Head(pairs).new), Tail(pairs))

\* tx as a handler sees it: the collaborators' answers and the trace state
Tx(answers) ==
    [port |-> answers.port, receiver |-> answers.receiver,
     symbolic_locals |-> symbolic_locals]

Init ==
    /\ pc = "idle"
    /\ call = NoCall
    /\ ports = NoEnv
    /\ outcome = Defer
    /\ counters = 0
    /\ symbolic_locals = [x |-> itA, y |-> itA, z |-> itB]
    /\ second = Defer
    /\ yielded = <<>>

\* the interpreter reaches one of the built-in calls of S
FeedFrom(S) ==
    /\ pc = "idle"
    /\ counters < MaxStats
    /\ \E c \in S : call' = c
    /\ pc' = "called"
    /\ UNCHANGED <<ports, outcome, counters, symbolic_locals, second, yielded>>

\* the interpreter reaches a built-in call
Feed == FeedFrom(Inputs)

\* the interpreter reaches a built-in call while it iterates: next on the iterator
\* now bound to x, or a call on other operands
IterFeed == FeedFrom(IterInputs \cup {Call("next", <<symbolic_locals.x>>, <<>>)})

\* BuiltinVariable(fn).call_function(tx, args, kwargs); yielded keeps what the
\* successive next calls on the iterator bound to x returned
Dispatch ==
    /\ pc = "called"
    /\ \E tx \in Envs :
          /\ ports' = tx
          /\ outcome' = call_function(BuiltinVariable(call.fn, call.guards), call.args,
                                      call.kwargs, Tx(tx))
    /\ counters' = counters + outcome'.added - outcome'.removed
    /\ symbolic_locals' = Rebind(symbolic_locals, outcome'.replaced)
    /\ yielded' = IF call.fn = "next" /\ call.args = <<symbolic_locals.x>>
                     /\ outcome'.kind = "return"
                  THEN Append(yielded, outcome'.value) ELSE yielded
    /\ pc' = "done"
    /\ UNCHANGED <<call, second>>

\* the same call_function call once more: same operation, same operand values, same
\* answers of the collaborators, in the state the first run left
Redispatch ==
    /\ pc = "done"
    /\ second' = call_function(BuiltinVariable(call.fn, call.guards), call.args,
                               call.kwargs, Tx(ports))
    /\ counters' = counters + second'.added - second'.removed
    /\ symbolic_locals' = Rebind(symbolic_locals, second'.replaced)
    /\ pc' = "redone"
    /\ UNCHANGED <<call, ports, outcome, yielded>>

\* BuiltinVariable(getattr).call_getattr(tx, obj, name_var, default) called as it is,
\* not through call_function
Resolve ==
    /\ pc = "called"
    /\ call.fn = "getattr"
    /\ \E tx \in Envs :
          /\ ports' = tx
          /\ outcome' = call_getattr(BuiltinVariable(call.fn, call.guards), call.args[1],
                                     call.args[2],
                                     Len(call.args) = 3 \/ "default" \in DOMAIN call.kwargs,
                                     Tx(tx))
    /\ counters' = counters + outcome'.added - outcome'.removed
    /\ pc' = "resolved"
    /\ UNCHANGED <<call, symbolic_locals, second, yielded>>

\* the interpreter takes the value, or handles the failure, and goes on
Consume ==
    /\ pc \in {"done", "resolved", "redone"}
    /\ pc' = "idle"
    /\ call' = NoCall
    /\ ports' = NoEnv
    /\ outcome' = Defer
    /\ second' = Defer
    /\ UNCHANGED <<counters, symbolic_locals, yielded>>

Next == Feed \/ Dispatch \/ Resolve \/ Consume

Spec == Init /\ [][Next]_vars

IterNext == IterFeed \/ Dispatch \/ Redispatch \/ Consume

\* the calls of a loop over the iterator bound in the trace state
IterSpec == Init /\ [][IterNext]_vars

TypeOK ==
    /\ pc \in {"idle", "called", "done", "resolved", "redone"}
    /\ counters \in 0..(MaxStats + 1)
    /\ outcome.kind \in {"none", "return", "raise"}

(***************************************************************************)
(* Properties of the dispatch.                                              *)
(***************************************************************************)
Done == pc = "done"

Self == BuiltinVariable(call.fn, call.guards)

CallOptions == propagate({Self} \cup Operands(call.args, call.kwargs))

AllConstant == check_constant_args(call.args, call.kwargs)

SomeTensor == tensor_args(call.args, call.kwargs)

HasConstantHandler == can_constant_fold_through(Self) /\ AllConstant

\* the operation applied directly to the unwrapped payloads of the operands
DirectEval ==
    HostApply(call.fn, [k \in 1..Len(call.args) |-> call.args[k].value],
              [k \in DOMAIN call.kwargs |-> call.kwargs[k].value])

Returned == outcome.kind = "return"

GraphBreak == outcome.kind = "raise" /\ outcome.exc = "Unsupported"

ReturnsTensorWithOperandGuards ==
    /\ Returned
    /\ outcome.value.kind = "TensorVariable"
    /\ \A v \in Operands(call.args, call.kwargs) : v.guards \subseteq outcome.value.guards

\* C1: a constant-foldable operation on all-constant operands returns a Constant
\* whose payload is the operation applied directly to the payloads, also when a
\* specialized handler runs before the fold.
C1_FoldEqualsDirectEvaluation ==
    (Done /\ HasConstantHandler /\ DirectEval.ok)
        => /\ Returned
           /\ outcome.value.kind = "ConstantVariable"
           /\ outcome.value.value = DirectEval.p

\* C2 as stated: a graph-insertable operation with a tensor operand always returns
\* a TensorVariable carrying every operand's guards, never a failure.
C2_AlwaysReturnsTensor ==
    (Done /\ can_insert_in_graph(Self) /\ SomeTensor) => ReturnsTensorWithOperandGuards

\* C2 amended: such a call returns a TensorVariable carrying every operand's guards
\* when the port accepts the insertion, raises Unsupported when the port rejects
\* it, and raises IndexError, before the port is asked, for iadd with no positional
\* operand or with a constant as its only positional operand.
C2_TensorWhenAccepted ==
    (Done /\ can_insert_in_graph(Self) /\ SomeTensor)
        => /\ outcome.reply = "accept" => ReturnsTensorWithOperandGuards
           /\ outcome.reply = "reject" => GraphBreak
           /\ outcome.reply = ""
                 => /\ call.fn = "iadd"
                    /\ Len(call.args) < 2
                    /\ outcome.kind = "raise" /\ outcome.exc = "IndexError"

C2_Witness ==
    /\ Done /\ can_insert_in_graph(Self) /\ SomeTensor
    /\ outcome.reply = "accept"
    /\ outcome.value.kind = "TensorVariable"
    /\ Cardinality(outcome.value.guards) >= 3

\* C3: whichever path returns a value, its guards include the guards of the
\* builtin itself and of every positional and keyword operand.
C3_GuardMonotonicity ==
    (Done /\ Returned) => CallOptions.guards \subseteq outcome.value.guards

C3_Witness ==
    /\ Done /\ Returned
    /\ outcome.path = "handler"
    /\ outcome.value.kind = "ListVariable"
    /\ {"g_b", "g_c", "g_l"} \subseteq outcome.value.guards

\* C4 as stated: a rejected insertion does not raise there, the call goes on to
\* the handler lookup.
C4_RejectionFallsThrough ==
    (Done /\ outcome.reply = "reject") => outcome.handler # "skipped"

\* C4 amended: a rejected insertion raises Unsupported ("partial tensor op", naming
\* the operation) at that point; no handler, constant fold or fallback is tried.
C4_RejectionRaises ==
    (Done /\ outcome.reply = "reject")
        => /\ GraphBreak
           /\ outcome.msg = "partial tensor op" /\ outcome.op = call.fn
           /\ outcome.path = "partial" /\ outcome.handler = "skipped"
           /\ outcome.requests = <<>>

C4_Witness ==
    /\ Done /\ outcome.reply = "reject"
    /\ call.fn = "add" /\ call.args = <<t1, c1>>
    /\ GraphBreak

\* C5: an Unsupported raised by the handler propagates unchanged when there is no
\* constant handler; otherwise it is taken out of the statistics exactly once and
\* the call returns the constant-folded Constant.
C5_UnsupportedAbsorbedOrRaised ==
    (Done /\ outcome.handler = "Unsupported")
        => IF HasConstantHandler
           THEN /\ Returned
                /\ outcome.value.kind = "ConstantVariable"
                /\ outcome.removed = outcome.added
           ELSE /\ GraphBreak
                /\ outcome.added = outcome.removed + 1

\* C6: a TypeError of the handler never reaches the caller; the call goes on to
\* the constant fold or the fallback, whatever the text of the TypeError.
C6_TypeErrorIsSilent ==
    (Done /\ outcome.handler = "TypeError") => outcome.path \in {"fold", "fallback"}

\* C7: every call ends in a returned value or in an Unsupported failure.
C7_OutcomeTotality == Done => (Returned \/ GraphBreak)

\* C8: with no graph insertion, a handler that is absent or returns None, and
\* operands that are not all constants, the call raises a graph break naming the
\* operation and returns no value.
C8_GraphBreakPropagation ==
    (Done /\ ~(can_insert_in_graph(Self) /\ SomeTensor)
          /\ outcome.handler \in {"absent", "none"} /\ ~AllConstant)
        => /\ GraphBreak
           /\ outcome.msg = "call_function"
           /\ outcome.op = call.fn

C8_Witness ==
    /\ Done /\ call.fn = "mul" /\ call.args = <<bAdd, c1>>
    /\ outcome.handler = "none"
    /\ GraphBreak

\* C9: iadd with operands [c, t], c a constant and t a tensor, inserts the node of
\* add with operands (t, c) and the same keyword operands, and yields what add
\* with [t, c] yields; with any other first operand iadd is inserted as it is.
C9_IaddRewrite ==
    (Done /\ call.fn = "iadd" /\ outcome.reply = "accept")
        => IF call.args[1].kind = "ConstantVariable"
           THEN /\ Len(call.args) = 2 /\ call.args[2].kind = "TensorVariable"
                     => outcome = call_function(BuiltinVariable("add", call.guards),
                                                <<call.args[2], call.args[1]>>, call.kwargs,
                                                [port |-> "accept", receiver |-> "capable"])
                /\ outcome.requests
                     = <<create_proxy("add", proxy_args_kwargs(<<call.args[2], call.args[1]>>,
                                                                call.kwargs))>>
           ELSE outcome.requests
                     = <<create_proxy("iadd", proxy_args_kwargs(call.args, call.kwargs))>>

C9_Witness ==
    /\ Done /\ call.fn = "iadd" /\ call.args = <<c1, t1>> /\ call.kwargs = <<>>
    /\ outcome.reply = "accept"
    /\ outcome.value.kind = "TensorVariable"
    /\ outcome.value.proxy.target = "add"

RECURSIVE SumFrom(_, _)
\* e[j] + e[j + 1] + ... + e[Len(e)] of constant ints
SumFrom(e, j) == IF j > Len(e) THEN 0 ELSE e[j].value.i + SumFrom(e, j + 1)

\* the first index (from 1) of the host slice e[k:] of a sequence of length n
SliceStart(n, k) ==
    IF k < 0 THEN (IF n + k < 0 THEN 1 ELSE n + k + 1)
    ELSE (IF k > n THEN n + 1 ELSE k + 1)

\* a sum call over constant int items, with no start or a constant int start
SumCase ==
    /\ Done /\ call.fn = "sum" /\ Len(call.args) = 1
    /\ has_unpack_var_sequence(call.args[1])
    /\ \A k \in 1..Len(unpack_var_sequence(call.args[1])) :
          /\ unpack_var_sequence(call.args[1])[k].kind = "ConstantVariable"
          /\ unpack_var_sequence(call.args[1])[k].value.t = "int"
    /\ DOMAIN call.kwargs \subseteq {"start"}
    /\ "start" \in DOMAIN call.kwargs
          => /\ call.kwargs["start"].kind = "ConstantVariable"
             /\ call.kwargs["start"].value.t = "int"

SumStart == IF "start" \in DOMAIN call.kwargs THEN call.kwargs["start"].value.i ELSE 0

ZipCase == Done /\ call.fn = "zip" /\ call.kwargs = <<>>

ZipAllUnpackable == \A k \in 1..Len(call.args) : has_unpack_var_sequence(call.args[k])

ZipAllSized ==
    \A k \in 1..Len(call.args) :
        call.args[k].kind = "TensorVariable" /\ size(call.args[k]) # <<>>

\* whether every length in ns is at least m and one of them is m (m is 0 for no operand)
IsShortest(m, ns) ==
    IF ns = <<>> THEN m = 0
    ELSE (\A k \in 1..Len(ns) : m <= ns[k]) /\ (\E k \in 1..Len(ns) : m = ns[k])

\* the result is a Sequence of m tuples, the i-th holding cell(i, k) for operand k
ZipResult(m, cell(_, _)) ==
    /\ Returned
    /\ outcome.value.kind = "TupleVariable"
    /\ Len(outcome.value.items) = m
    /\ \A i \in 1..m :
          /\ outcome.value.items[i].kind = "TupleVariable"
          /\ Len(outcome.value.items[i].items) = Len(call.args)
          /\ \A k \in 1..Len(call.args) : outcome.value.items[i].items[k] = cell(i, k)

ZipElement(i, k) == unpack_var_sequence(call.args[k])[i]

ZipGetitem(i, k) ==
    call_function(BuiltinVariable("getitem", (CallOptions).guards),
                  <<call.args[k], ConstantVariable(PyInt(i - 1), {})>>, <<>>, ports).value

\* C11: zip of sequence-unpackable operands returns as many tuples as the shortest
\* operand has items, the i-th holding the i-th element of each operand in operand
\* order; zip of tensors of known non-empty size returns as many tuples as the least
\* leading dimension, the i-th holding getitem(operand, i) of each operand (a graph
\* break when the port rejects such a getitem); in every other case the handler
\* yields no result.
C11_ZipShortest ==
    ZipCase
        => IF ZipAllUnpackable
           THEN ZipResult(Len(outcome.value.items), ZipElement)
                /\ IsShortest(Len(outcome.value.items),
                              [k \in 1..Len(call.args) |->
                                  Len(unpack_var_sequence(call.args[k]))])
           ELSE IF ZipAllSized
           THEN \/ /\ ZipResult(Len(outcome.value.items), ZipGetitem)
                   /\ IsShortest(Len(outcome.value.items),
                                 [k \in 1..Len(call.args) |-> size(call.args[k])[1]])
                \/ /\ ports.port = "reject"
                   /\ \A k \in 1..Len(call.args) : size(call.args[k])[1] > 0
                   /\ GraphBreak /\ outcome.msg = "partial tensor op"
           ELSE outcome.handler = "none"

\* zip([1, 2, 3], (4, 5)) returns ((1, 4), (2, 5))
C11_Witness ==
    /\ ZipCase /\ Len(call.args) = 2 /\ ZipAllUnpackable
    /\ Len(unpack_var_sequence(call.args[1])) = 3
    /\ Len(unpack_var_sequence(call.args[2])) = 2
    /\ Returned
    /\ [i \in 1..Len(outcome.value.items) |->
           [k \in 1..2 |-> outcome.value.items[i].items[k].value.i]]
         = <<<<1, 4>>, <<2, 5>>>>

(***************************************************************************)
(* Properties of the reduce handler.                                        *)
(***************************************************************************)
\* a reduce call over a sequence-unpackable operand that has a seed: an initializer
\* or a first element
ReduceCase ==
    /\ Done /\ call.fn = "reduce" /\ Len(call.args) \in {2, 3} /\ call.kwargs = <<>>
    /\ has_unpack_var_sequence(call.args[2])
    /\ Len(call.args) = 3 \/ unpack_var_sequence(call.args[2]) # <<>>

\* f(a, b) as the function operand of the call answers it
ReduceApply(a, b) == value_call_function(call.args[1], <<a, b>>, <<>>, ports).value

RECURSIVE FoldTo(_, _, _)
\* f(...f(f(v, e[1]), e[2])..., e[n])
FoldTo(v, e, n) == IF n = 0 THEN v ELSE ReduceApply(FoldTo(v, e, n - 1), e[n])

ReduceExpected ==
    LET e == unpack_var_sequence(call.args[2])
    IN IF Len(call.args) = 3 THEN FoldTo(call.args[3], e, Len(e))
       ELSE FoldTo(e[1], Tail(e), Len(e) - 1)

RECURSIVE FoldReturns(_, _, _)
\* whether each of the n applications of the fold gives a value
FoldReturns(v, e, n) ==
    \/ n = 0
    \/ /\ FoldReturns(v, e, n - 1)
       /\ value_call_function(call.args[1], <<FoldTo(v, e, n - 1), e[n]>>, <<>>, ports).kind
            = "return"

ReduceApplies ==
    LET e == unpack_var_sequence(call.args[2])
    IN IF Len(call.args) = 3 THEN FoldReturns(call.args[3], e, Len(e))
       ELSE FoldReturns(e[1], Tail(e), Len(e) - 1)

\* C12: reduce over items e is the left fold f(...f(f(e0, e1), e2)..., e[n-1]) with no
\* initializer (e0 itself for one item) and f(...f(f(v, e0), e1)..., e[n-1]) with an
\* initializer v (v itself for no item), f applied once per folded element and in
\* order; the call returns no value when an application of f gives none.
C12_ReduceLeftFold ==
    ReduceCase
        => IF ReduceApplies
           THEN Returned /\ outcome.value = add_options(ReduceExpected, CallOptions)
           ELSE outcome.kind = "raise"

\* reduce(f, [1, 2, 3]) returns f(f(1, 2), 3)
C12_Witness ==
    /\ ReduceCase /\ Len(call.args) = 2 /\ call.args[1] = fU
    /\ Len(unpack_var_sequence(call.args[2])) = 3
    /\ Returned
    /\ outcome.value.kind = "InlinedValue"
    /\ outcome.value.items[2].value = PyInt(3)
    /\ outcome.value.items[1].kind = "InlinedValue"
    /\ outcome.value.items[1].items[1].value = PyInt(1)
    /\ outcome.value.items[1].items[2].value = PyInt(2)

(***************************************************************************)
(* Properties of the attribute resolver.                                    *)
(***************************************************************************)
Resolved == pc = "resolved"

GetattrObj == call.args[1]

GetattrNameVar == call.args[2]

GetattrHasDefault == Len(call.args) = 3 \/ "default" \in DOMAIN call.kwargs

\* a getattr call, dispatched or resolved directly, whose name operand is no
\* constant or that has a default operand
GetattrRefused ==
    /\ Done \/ Resolved
    /\ call.fn = "getattr"
    /\ ~is_python_constant(GetattrNameVar) \/ GetattrHasDefault

\* C13: getattr with a name operand that is no compile-time constant, or with a
\* default operand, is a graph break raised before any lookup, registry read or
\* Value Builder call, for every receiver; through call_function it reaches the
\* caller as it is, never absorbed, never taken out of the statistics.
C13_GetattrPreconditions ==
    GetattrRefused
        => /\ GraphBreak
           /\ outcome.msg = IF ~is_python_constant(GetattrNameVar)
                            THEN "non-const getattr name" ELSE "getattr with default"
           /\ outcome.reads = <<>>
           /\ outcome.requests = <<>>
           /\ outcome.added = 1 /\ outcome.removed = 0
           /\ Done => outcome.path = "handler_raise" /\ outcome.handler = "Unsupported"

\* getattr(module, "field", default) through call_function: refused, registry unread
C13_Witness ==
    /\ Done /\ call.fn = "getattr"
    /\ GetattrObj.kind = "NNModuleVariable" /\ GetattrObj.source
    /\ is_python_constant(GetattrNameVar) /\ GetattrNameVar.value.n = "field"
    /\ GetattrHasDefault
    /\ GraphBreak /\ outcome.msg = "getattr with default"
    /\ outcome.reads = <<>>

\* C14: whichever branch of call_getattr returns a value, the guards of that value,
\* as call_getattr itself returns it, include every guard of the receiver.
C14_ReceiverGuardsKept ==
    (Resolved /\ Returned) => GetattrObj.guards \subseteq outcome.value.guards

\* getattr(module, "field") resolved from the module's store by the Value Builder
C14_Witness ==
    /\ Resolved /\ Returned
    /\ GetattrObj.kind = "NNModuleVariable"
    /\ GetattrNameVar.value.n = "field"
    /\ outcome.reads = <<"registry", "lookup", "builder">>
    /\ outcome.value.kind = "BuiltVariable"
    /\ {"g_m", "g_v"} \subseteq outcome.value.guards

(***************************************************************************)
(* Properties of repeated and of successive dispatches.                     *)
(***************************************************************************)
Redone == pc = "redone"

MulCase ==
    /\ Done /\ call.fn = "mul" /\ Len(call.args) = 2 /\ call.kwargs = <<>>
    /\ ~SomeTensor

IsSequence(v) == v.kind \in {"ListVariable", "TupleVariable"}

IsConstantInt(v) == v.kind = "ConstantVariable" /\ v.value.t = "int"

\* the Sequence operand and the count of a mul call of a Sequence and an int
MulSeq == IF IsSequence(call.args[1]) THEN call.args[1] ELSE call.args[2]

MulCount == IF IsSequence(call.args[1]) THEN call.args[2].value.i ELSE call.args[1].value.i

\* C16: mul of a list / tuple Sequence and a Constant int, on either side, returns
\* a clone of the Sequence with the items repeated n times in order (none for
\* n <= 0); for every other pair of operands, a Sequence and a Constant that is no
\* int included, the handler yields no result and the dispatch goes on to the
\* constant fold or the fallback without an error of its own.
C16_MulHandler ==
    MulCase
        => IF \/ IsSequence(call.args[1]) /\ IsConstantInt(call.args[2])
              \/ IsSequence(call.args[2]) /\ IsConstantInt(call.args[1])
           THEN /\ Returned
                /\ outcome.value.kind = MulSeq.kind
                /\ Len(outcome.value.items)
                     = IF MulCount > 0 THEN MulCount * Len(MulSeq.items) ELSE 0
                /\ \A j \in 1..Len(outcome.value.items) :
                      outcome.value.items[j] = MulSeq.items[((j - 1) % Len(MulSeq.items)) + 1]
           ELSE /\ outcome.handler = "none"
                /\ outcome.path \in {"fold", "fallback"}

\* the iterator now bound to x
IterBound == symbolic_locals.x

\* what the i-th next dispatch on the bound iterator returns: the i-th item, with the
\* guards of the iterator and of the builtin
NextYield(i) == add_options(IterItems[i], [guards |-> itA.guards \cup {"g_b"}])

\* a dispatch of next on one operand
NextCase == Done /\ call.fn = "next" /\ Len(call.args) = 1 /\ call.kwargs = <<>>

\* C17: the k next dispatches made so far on the iterator bound in the trace state
\* returned the items e0, ..., e[k-1] in order, and each put the advanced iterator in
\* the place of every occurrence of the old one (x and y), leaving other values (z)
\* alone; next on an operand that is no list iterator yields no result and replaces
\* nothing in the trace state.
C17_NextAdvancesAndRebinds ==
    /\ IterBound.kind = "ListIteratorVariable"
    /\ IterBound.items = IterItems
    /\ IterBound.value.i = Len(yielded)
    /\ Len(yielded) <= Len(IterItems)
    /\ \A i \in 1..Len(yielded) : yielded[i] = NextYield(i)
    /\ symbolic_locals.y = symbolic_locals.x
    /\ symbolic_locals.z = itB
    /\ (NextCase /\ call.args[1].kind = "ListIteratorVariable" /\ Returned)
          => /\ outcome.value = add_options(call.args[1].items[call.args[1].value.i + 1],
                                            CallOptions)
             /\ Len(outcome.replaced) = 1
             /\ outcome.replaced[1].old = call.args[1]
             /\ outcome.replaced[1].new.value.i = call.args[1].value.i + 1
    /\ (NextCase /\ call.args[1].kind # "ListIteratorVariable")
          => outcome.handler = "none" /\ outcome.replaced = <<>>

\* the third next dispatch in a row on the bound iterator returns the third item
C17_Witness ==
    /\ NextCase /\ Returned
    /\ Len(yielded) = 3
    /\ outcome.value = yielded[3]
    /\ yielded[3].value = PyInt(3)
    /\ yielded[1].value = PyInt(1)
    /\ IterBound.value.i = 3
    /\ symbolic_locals.y.value.i = 3

(***************************************************************************)
(* Graph insertion and constant fold exclude each other.                    *)
(***************************************************************************)
\* the graph-insertion branch was entered
InsertionEntered == outcome.path \in {"graph", "partial", "rewrite"}

\* C18: no call has both a tensor operand and only constant operands, so
\* has_constant_handler is false whenever the graph-insertion branch is entered;
\* for an operation in both classifier sets the operands alone decide the path
\* (insertion exactly when some operand is a tensor, a fold only over constants),
\* and the Unsupported of a rejected insertion is raised, never absorbed by a fold.
C18_InsertionExcludesFold ==
    Done
        => /\ ~(SomeTensor /\ AllConstant)
           /\ InsertionEntered => ~HasConstantHandler
           /\ (can_insert_in_graph(Self) /\ can_constant_fold_through(Self))
                 => /\ InsertionEntered <=> SomeTensor
                    /\ outcome.path = "fold" => (AllConstant /\ ~SomeTensor)
           /\ outcome.reply = "reject"
                 => /\ GraphBreak
                    /\ outcome.removed = 0
                    /\ outcome.path # "fold"

\* mul, in both classifier sets, of a tensor and a constant with a rejecting port
C18_Witness ==
    /\ Done /\ call.fn = "mul" /\ call.args = <<t1, c1>> /\ call.kwargs = <<>>
    /\ can_insert_in_graph(Self) /\ can_constant_fold_through(Self)
    /\ SomeTensor /\ ~AllConstant
    /\ outcome.path = "partial"
    /\ GraphBreak /\ outcome.removed = 0

====
